---- MODULE Spec2Model ----
(***************************************************************************)
(* Voice agent: the document indexer (rag_indexer_native.py) and the HTTP  *)
(* API (voice_agent_native.py) over one relational store and one document  *)
(* folder.                                                                 *)
(*                                                                         *)
(* The indexer process has two threads: "main" (start-up reconciliation,   *)
(* existing-file sweep, then the 10 s reconciliation loop) and "event"     *)
(* (the observer thread that runs DocHandler callbacks one at a time).     *)
(* The API process serves one handler at a time (its handlers block).      *)
(***************************************************************************)
EXTENDS Integers, Sequences, FiniteSets, TLC

\* ------------------------------------------------------------------ bounds
MaxOps == 2
MaxDrops == 1
MaxFaults == 1
MaxQueue == 2
MaxTurns == 2
TruncSlack == 1
SampleLen == 10000

\* --------------------------------------------------------------- constants
max_chars == 8000

Paths == {"a.txt"}
Threads == {"main", "event"}

\* A byte is a number: 0 is whitespace, BadByte is a byte that does not decode.
BadByte == 9
Bodies == {<<0>>, <<1, 0>>, <<BadByte, 2>>}

\* SQL NULL for a text or vector column, and "no such file" on disk.
NULL == <<-1>>
NoFile == <<-2>>
NoMsg == "NULL"
NoId == 0

NoTextMsg == "No text could be extracted from file"
NotFoundMsg == "File not found on disk"
EmbedErrMsg == "embedding backend error"
DeletedMsg == "Document deleted"

VARIABLES
    docs,             \* the documents table: a set of rows
    nextId,           \* the table's serial
    files,            \* the document folder: path -> body, or NoFile
    processed_files,  \* the indexer's processed-path cache
    observing,        \* the observer has been started
    events,           \* the observer's queue of filesystem events
    th,               \* per indexer thread: position and locals
    api,              \* the API handler in flight (an upload between save and insert)
    resp,             \* the API's last response
    deleted,          \* history: the identifiers delete_document has removed
    budget,           \* history: what the environment and the faults may still do
    convs,            \* the conversations table: a set of rows
    nextConv,         \* the conversations table's serial
    messages,         \* the conversation_messages table, in insertion order
    req,              \* the chat / voice / query request being handled
    out               \* the response to the last chat / voice / query request

chatVars == <<convs, nextConv, messages, req, out>>

vars == <<docs, nextId, files, processed_files, observing, events, th, api, resp,
          deleted, budget, chatVars>>

\* ------------------------------------------------------------ pure helpers
\* Path(p).suffix.lower() and Path(p).name.startswith('.') of the names used.
Suffix(p) ==
    IF p \in {"a.txt", "b.txt", ".h.txt", "C.TXT"} THEN ".txt"
    ELSE IF p = "b.md" THEN ".md"
    ELSE IF p = "n.bin" THEN ".bin"
    ELSE ""
Hidden(p) == p \in {".h.txt"}
supported_extensions == {".pdf", ".txt", ".md", ".docx", ".json", ".csv"}

\* bytes.decode(errors="ignore"): undecodable bytes are dropped.
Decode(b) == SelectSeq(b, LAMBDA x : x # BadByte)

RECURSIVE LStrip(_)
LStrip(s) == IF s # <<>> /\ Head(s) = 0 THEN LStrip(Tail(s)) ELSE s

RECURSIVE RStrip(_)
RStrip(s) ==
    IF s # <<>> /\ s[Len(s)] = 0 THEN RStrip(SubSeq(s, 1, Len(s) - 1)) ELSE s

Strip(s) == RStrip(LStrip(s))

\* extract_text_from_file for a body on disk; a file that cannot be opened gives "".
extract_text_from_file(p, body) ==
    IF Suffix(p) \in {".txt", ".md", ".json", ".csv"}
    THEN IF body = NoFile THEN <<>> ELSE Strip(Decode(body))
    ELSE <<>>

\* Mutant: no truncation.
TruncateText_NoLimit(text) == text

\* text[:max_chars] when len(text) > max_chars
TruncateText(text) ==
    IF Len(text) > max_chars THEN SubSeq(text, 1, max_chars) ELSE text

\* The embedding backend's answer for a prompt: a fixed-length vector.
get_embedding(text) == <<text[1], Len(text) % 3>>

\* Python truthiness of an optional text / vector / message argument.
Truthy(x) == x # NULL /\ x # <<>>
TruthyMsg(m) == m # NoMsg /\ m # ""

\* ------------------------------------------------------------------ store
RowsAt(d, p) == {r \in d : r.file_path = p}
RowsId(d, id) == {r \in d : r.id = id}

\* Mutant: a schema without the UNIQUE(file_path) constraint.
UniqueViolation_None(d, p) == FALSE

\* The schema's UNIQUE(file_path): an INSERT of a recorded path is refused.
UniqueViolation(d, p) == RowsAt(d, p) # {}

NewRow(id, p, status, content, embedding) ==
    [id |-> id, file_path |-> p, status |-> status, error_message |-> NoMsg,
     content |-> content, embedding |-> embedding]

\* Mutant: the UPDATE forgets the content column.
UpdateRow_NoContent(d, id, status, msg, content, embedding) ==
    {IF r.id = id
     THEN [r EXCEPT !.status = status,
                    !.error_message = IF TruthyMsg(msg) THEN msg ELSE @,
                    !.embedding = IF Truthy(embedding) THEN embedding ELSE @]
     ELSE r : r \in d}

\* UPDATE documents SET ... WHERE id = %s, as update_document_status builds it.
UpdateRow(d, id, status, msg, content, embedding) ==
    {IF r.id = id
     THEN [r EXCEPT !.status = status,
                    !.error_message = IF TruthyMsg(msg) THEN msg ELSE @,
                    !.content = IF Truthy(content) THEN content ELSE @,
                    !.embedding = IF Truthy(embedding) THEN embedding ELSE @]
     ELSE r : r \in d}

\* update_document_status inserts only an indexed row that has content and embedding.
InsertsNewRow(status, content, embedding) ==
    status = "indexed" /\ Truthy(content) /\ Truthy(embedding)

\* ------------------------------------------------------------ thread state
NoCall == [status |-> "", msg |-> NoMsg, content |-> NULL, embedding |-> NULL,
           ret |-> ""]

ThreadInit(pc) ==
    [pc |-> pc, fp |-> "", raw |-> NULL, text |-> NULL, emb |-> NULL,
     exc |-> NoMsg, sel |-> NoId, upd |-> NoCall, ret |-> "", todo |-> {},
     phase |-> "startup", fresh |-> FALSE, via |-> ""]

\* Entering index_document(p), to return to pc `ret`.  fresh (history) records
\* that the path had no record when the run began, via (history) what called it.
EnterIndex(s, p, ret) ==
    [s EXCEPT !.pc = "idx_check", !.fp = p, !.ret = ret, !.raw = NULL,
              !.text = NULL, !.emb = NULL, !.exc = NoMsg, !.sel = NoId,
              !.fresh = (\A r \in docs : r.file_path # p),
              !.via = IF ret = "pp_loop" THEN "pending"
                      ELSE IF ret = "sw_loop" THEN "sweep" ELSE "created"]

\* Calling update_document_status(fp, status, msg, content, embedding).
CallUpdate(s, status, msg, content, embedding, ret) ==
    [s EXCEPT !.pc = "upd_select",
              !.upd = [status |-> status, msg |-> msg, content |-> content,
                       embedding |-> embedding, ret |-> ret]]

\* A store or backend call may fail while the fault budget lasts; storefails
\* (history) counts the store calls that failed.
Outcomes == IF budget.faults > 0 THEN {"ok", "fail"} ELSE {"ok"}
Spend(o) ==
    [budget EXCEPT !.faults = IF o = "fail" THEN @ - 1 ELSE @,
                   !.storefails = IF o = "fail" THEN @ + 1 ELSE @]
SpendBackend(o) == [budget EXCEPT !.faults = IF o = "fail" THEN @ - 1 ELSE @]


\* Leaving a call: back in the caller the callee's locals are gone.
IndexPcs == {"idx_extract", "idx_embed", "idx_add"}
Leave(s, pc) ==
    IF pc \in IndexPcs
    THEN [s EXCEPT !.pc = pc, !.sel = NoId, !.upd = NoCall]
    ELSE [s EXCEPT !.pc = pc, !.sel = NoId, !.upd = NoCall, !.fp = "",
                   !.raw = NULL, !.text = NULL, !.emb = NULL, !.exc = NoMsg,
                   !.ret = "", !.fresh = FALSE, !.via = ""]

\* ------------------------------------------------- update_document_status
\* SELECT id FROM documents WHERE file_path = %s; a store failure is caught
\* and logged by the function's own except clause.
update_document_status_select(t) ==
    /\ th[t].pc = "upd_select"
    /\ \E o \in Outcomes :
         /\ budget' = Spend(o)
         /\ IF o = "fail"
            THEN th' = [th EXCEPT ![t] = Leave(th[t], th[t].upd.ret)]
            ELSE \E id \in (IF RowsAt(docs, th[t].fp) = {} THEN {NoId}
                            ELSE {r.id : r \in RowsAt(docs, th[t].fp)}) :
                   th' = [th EXCEPT ![t].sel = id, ![t].pc = "upd_write"]
    /\ UNCHANGED <<chatVars, docs, nextId, files, processed_files, observing, events, api,
                   resp, deleted>>

\* The UPDATE of the selected row, or the INSERT of a new indexed row, and commit.
update_document_status_write(t) ==
    LET s == th[t]
        u == s.upd
    IN  /\ s.pc = "upd_write"
        /\ IF s.sel # NoId
           THEN /\ docs' = UpdateRow(docs, s.sel, u.status, u.msg, u.content,
                                     u.embedding)
                /\ nextId' = nextId
           ELSE IF InsertsNewRow(u.status, u.content, u.embedding)
           THEN /\ nextId' = nextId + 1
                /\ docs' = IF UniqueViolation(docs, s.fp) THEN docs
                           ELSE docs \cup {NewRow(nextId, s.fp, u.status,
                                                  u.content, u.embedding)}
           ELSE UNCHANGED <<docs, nextId>>
        /\ th' = [th EXCEPT ![t] = Leave(s, u.ret)]
        /\ UNCHANGED <<chatVars, files, processed_files, observing, events, api, resp,
                       deleted, budget>>

\* --------------------------------------------------------- index_document
\* "Skip if already processed", else mark the record processing.
index_document_check(t) ==
    LET s == th[t]
    IN  /\ s.pc = "idx_check"
        /\ th' = [th EXCEPT ![t] =
                    IF s.fp \in processed_files
                    THEN Leave(s, s.ret)
                    ELSE CallUpdate(s, "processing", NoMsg, NULL, NULL,
                                    "idx_extract")]
        /\ UNCHANGED <<chatVars, docs, nextId, files, processed_files, observing, events,
                       api, resp, deleted, budget>>

\* Extract and truncate; empty text ends the run with status error.
index_document_extract(t) ==
    LET s == th[t]
        raw == extract_text_from_file(s.fp, files[s.fp])
        s1 == [s EXCEPT !.raw = raw, !.text = TruncateText(raw)]
    IN  /\ s.pc = "idx_extract"
        /\ th' = [th EXCEPT ![t] =
                    IF raw = <<>>
                    THEN CallUpdate(s1, "error", NoTextMsg, NULL, NULL, s.ret)
                    ELSE [s1 EXCEPT !.pc = "idx_embed"]]
        /\ UNCHANGED <<chatVars, docs, nextId, files, processed_files, observing, events,
                       api, resp, deleted, budget>>

\* Mutant: the except clause only logs.
OnException_Silent(s) == Leave(s, s.ret)

\* The except clause of index_document: record the error, return normally.
OnException(s) == CallUpdate(s, "error", s.exc, NULL, NULL, s.ret)

\* get_embedding(text), then the indexed update; a backend failure raises.
index_document_embed(t) ==
    LET s == th[t]
    IN  /\ s.pc = "idx_embed"
        /\ \E o \in Outcomes :
             /\ budget' = SpendBackend(o)
             /\ th' = [th EXCEPT ![t] =
                         IF o = "fail"
                         THEN OnException([s EXCEPT !.exc = EmbedErrMsg])
                         ELSE CallUpdate([s EXCEPT !.emb = get_embedding(s.text)],
                                         "indexed", NoMsg, s.text,
                                         get_embedding(s.text), "idx_add")]
        /\ UNCHANGED <<chatVars, docs, nextId, files, processed_files, observing, events,
                       api, resp, deleted>>

\* processed_files.add(file_path)
index_document_add(t) ==
    LET s == th[t]
    IN  /\ s.pc = "idx_add"
        /\ processed_files' = processed_files \cup {s.fp}
        /\ th' = [th EXCEPT ![t] = Leave(s, s.ret)]
        /\ UNCHANGED <<chatVars, docs, nextId, files, observing, events, api, resp, deleted,
                       budget>>

\* ------------------------------------------------ process_pending_documents
AfterPass(s) == IF s.phase = "startup" THEN "sw_start" ELSE "pp_query"

\* SELECT ... WHERE status = 'pending'; any exception ends the pass.
process_pending_documents_query ==
    LET s == th["main"]
        pending == {r.file_path : r \in {x \in docs : x.status = "pending"}}
    IN  /\ s.pc = "pp_query"
        /\ \E o \in Outcomes :
             /\ budget' = Spend(o)
             /\ th' = [th EXCEPT !["main"] =
                         IF o = "fail" \/ pending = {}
                         THEN [s EXCEPT !.pc = AfterPass(s)]
                         ELSE [s EXCEPT !.pc = "pp_loop", !.todo = pending]]
        /\ UNCHANGED <<chatVars, docs, nextId, files, processed_files, observing, events,
                       api, resp, deleted>>

\* Mutant: the pass does not look whether the file exists.
process_pending_documents_next_NoExists ==
    LET s == th["main"]
    IN  /\ s.pc = "pp_loop"
        /\ IF s.todo = {}
           THEN th' = [th EXCEPT !["main"].pc = AfterPass(s)]
           ELSE \E p \in s.todo :
                  th' = [th EXCEPT !["main"] =
                           EnterIndex([s EXCEPT !.todo = @ \ {p}], p, "pp_loop")]
        /\ UNCHANGED <<chatVars, docs, nextId, files, processed_files, observing, events,
                       api, resp, deleted, budget>>

\* One iteration of "for doc in pending_docs".
process_pending_documents_next ==
    LET s == th["main"]
    IN  /\ s.pc = "pp_loop"
        /\ IF s.todo = {}
           THEN th' = [th EXCEPT !["main"].pc = AfterPass(s)]
           ELSE \E p \in s.todo :
                  LET s1 == [s EXCEPT !.todo = @ \ {p}]
                  IN  th' = [th EXCEPT !["main"] =
                               IF files[p] # NoFile
                               THEN EnterIndex(s1, p, "pp_loop")
                               ELSE CallUpdate([s1 EXCEPT !.fp = p], "error",
                                               NotFoundMsg, NULL, NULL, "pp_loop")]
        /\ UNCHANGED <<chatVars, docs, nextId, files, processed_files, observing, events,
                       api, resp, deleted, budget>>

\* ----------------------------------------------------- index_existing_files
index_existing_files_start ==
    LET s == th["main"]
    IN  /\ s.pc = "sw_start"
        /\ th' = [th EXCEPT !["main"] =
                    [s EXCEPT !.pc = "sw_loop",
                              !.todo = {p \in DOMAIN files : files[p] # NoFile}]]
        /\ UNCHANGED <<chatVars, docs, nextId, files, processed_files, observing, events,
                       api, resp, deleted, budget>>

\* Mutant: the sweep does not skip hidden files.
index_existing_files_next_Hidden ==
    LET s == th["main"]
    IN  /\ s.pc = "sw_loop"
        /\ IF s.todo = {}
           THEN /\ th' = [th EXCEPT !["main"].pc = "obs_start"]
                /\ UNCHANGED <<processed_files, budget>>
           ELSE \E p \in s.todo :
                  LET s1 == [s EXCEPT !.todo = @ \ {p}]
                  IN  IF files[p] = NoFile \/ Suffix(p) \notin supported_extensions
                      THEN /\ th' = [th EXCEPT !["main"] = s1]
                           /\ UNCHANGED <<processed_files, budget>>
                      ELSE \E o \in Outcomes :
                             /\ budget' = Spend(o)
                             /\ \E st \in (IF o = "fail" \/ RowsAt(docs, p) = {}
                                           THEN {"none"}
                                           ELSE {r.status : r \in RowsAt(docs, p)}) :
                                  IF st = "indexed"
                                  THEN /\ processed_files' = processed_files \cup {p}
                                       /\ th' = [th EXCEPT !["main"] = s1]
                                  ELSE /\ processed_files' = processed_files
                                       /\ th' = [th EXCEPT !["main"] =
                                                   EnterIndex(s1, p, "sw_loop")]
        /\ UNCHANGED <<chatVars, docs, nextId, files, observing, events, api, resp, deleted>>

\* One iteration of "for file_path in watch_path.rglob('*')".
index_existing_files_next ==
    LET s == th["main"]
    IN  /\ s.pc = "sw_loop"
        /\ IF s.todo = {}
           THEN /\ th' = [th EXCEPT !["main"].pc = "obs_start"]
                /\ UNCHANGED <<processed_files, budget>>
           ELSE \E p \in s.todo :
                  LET s1 == [s EXCEPT !.todo = @ \ {p}]
                  IN  IF files[p] = NoFile \/ Suffix(p) \notin supported_extensions
                         \/ Hidden(p)
                      THEN /\ th' = [th EXCEPT !["main"] = s1]
                           /\ UNCHANGED <<processed_files, budget>>
                      ELSE \E o \in Outcomes :
                             /\ budget' = Spend(o)
                             /\ \E st \in (IF o = "fail" \/ RowsAt(docs, p) = {}
                                           THEN {"none"}
                                           ELSE {r.status : r \in RowsAt(docs, p)}) :
                                  IF st = "indexed"
                                  THEN /\ processed_files' = processed_files \cup {p}
                                       /\ th' = [th EXCEPT !["main"] = s1]
                                  ELSE /\ processed_files' = processed_files
                                       /\ th' = [th EXCEPT !["main"] =
                                                   EnterIndex(s1, p, "sw_loop")]
        /\ UNCHANGED <<chatVars, docs, nextId, files, observing, events, api, resp, deleted>>

\* observer.start(), then the reconciliation loop.
main_observe ==
    /\ th["main"].pc = "obs_start"
    /\ observing' = TRUE
    /\ th' = [th EXCEPT !["main"].pc = "pp_query", !["main"].phase = "loop"]
    /\ UNCHANGED <<chatVars, docs, nextId, files, processed_files, events, api, resp, deleted,
                   budget>>

\* -------------------------------------------------------------- DocHandler
on_created ==
    LET s == th["event"]
        e == Head(events)
    IN  /\ s.pc = "ev_idle"
        /\ events # <<>>
        /\ e.kind = "created"
        /\ events' = Tail(events)
        /\ th' = [th EXCEPT !["event"] =
                    IF ~Hidden(e.path) /\ Suffix(e.path) \in supported_extensions
                    THEN EnterIndex(s, e.path, "ev_idle")
                    ELSE s]
        /\ UNCHANGED <<chatVars, docs, nextId, files, processed_files, observing, api, resp,
                       deleted, budget>>

on_modified ==
    LET s == th["event"]
        e == Head(events)
        ok == ~Hidden(e.path) /\ Suffix(e.path) \in supported_extensions
    IN  /\ s.pc = "ev_idle"
        /\ events # <<>>
        /\ e.kind = "modified"
        /\ events' = Tail(events)
        /\ processed_files' = IF ok THEN processed_files \ {e.path}
                              ELSE processed_files
        /\ th' = [th EXCEPT !["event"] =
                    IF ok THEN [EnterIndex(s, e.path, "ev_idle") EXCEPT
                                  !.via = "modified"]
                    ELSE s]
        /\ UNCHANGED <<chatVars, docs, nextId, files, observing, api, resp, deleted, budget>>

\* ---------------------------------------------------- the document folder
\* What the observer queues when a file is written: created (a new name) and modified.
Emitted(p) ==
    IF ~observing THEN <<>>
    ELSE IF files[p] = NoFile
    THEN <<[kind |-> "created", path |-> p], [kind |-> "modified", path |-> p]>>
    ELSE <<[kind |-> "modified", path |-> p]>>

\* A file written into the watched folder by something other than the API.
FileDrop(p, body) ==
    /\ budget.drops > 0
    /\ Len(events) + Len(Emitted(p)) <= MaxQueue
    /\ files' = [files EXCEPT ![p] = body]
    /\ events' = events \o Emitted(p)
    /\ budget' = [budget EXCEPT !.drops = @ - 1]
    /\ UNCHANGED <<chatVars, docs, nextId, processed_files, observing, th, api, resp, deleted>>

\* -------------------------------------------------------- document API
Idle == [op |-> "idle", path |-> ""]
NoResp == [op |-> "none", code |-> 0, msg |-> "", id |-> NoId, again |-> FALSE]

\* upload_document, first half: the file is saved under DOCUMENTS_DIR.
upload_document_save(p, body) ==
    /\ api = Idle
    /\ budget.ops > 0
    /\ Len(events) + Len(Emitted(p)) <= MaxQueue
    /\ files' = [files EXCEPT ![p] = body]
    /\ events' = events \o Emitted(p)
    /\ api' = [op |-> "upload", path |-> p]
    /\ budget' = [budget EXCEPT !.ops = @ - 1]
    /\ UNCHANGED <<chatVars, docs, nextId, processed_files, observing, th, resp, deleted>>

\* upload_document, second half: INSERT ... 'pending' RETURNING id, or a 500.
upload_document_insert ==
    /\ api.op = "upload"
    /\ \E o \in Outcomes :
         /\ budget' = Spend(o)
         /\ IF o = "fail"
            THEN /\ UNCHANGED <<docs, nextId>>
                 /\ resp' = [NoResp EXCEPT !.op = "upload", !.code = 500]
            ELSE /\ nextId' = nextId + 1
                 /\ IF UniqueViolation(docs, api.path)
                    THEN /\ docs' = docs
                         /\ resp' = [NoResp EXCEPT !.op = "upload", !.code = 500]
                    ELSE /\ docs' = docs \cup
                                {NewRow(nextId, api.path, "pending", NULL, NULL)}
                         /\ resp' = [NoResp EXCEPT !.op = "upload", !.code = 200,
                                                    !.id = nextId]
    /\ api' = Idle
    /\ UNCHANGED <<chatVars, files, processed_files, observing, events, th, deleted>>

\* Mutant: the row is deleted, the file is left on disk.
delete_document_KeepsFile(id) ==
    LET result == RowsId(docs, id)
        again == id \in deleted
    IN  /\ api = Idle
        /\ budget.ops > 0
        /\ \E o \in Outcomes :
             /\ budget' = [Spend(o) EXCEPT !.ops = @ - 1]
             /\ IF o = "fail"
                THEN /\ UNCHANGED <<docs, deleted>>
                     /\ resp' = [op |-> "delete", code |-> 500, msg |-> "",
                                 id |-> id, again |-> again]
                ELSE /\ docs' = docs \ result
                     /\ deleted' = IF result # {} THEN deleted \cup {id}
                                   ELSE deleted
                     /\ resp' = [op |-> "delete", code |-> 200, msg |-> DeletedMsg,
                                 id |-> id, again |-> again]
        /\ UNCHANGED <<chatVars, files, nextId, processed_files, observing, events,
                       th, api>>

\* delete_document: one transaction; the row, then its file.  resp.again records
\* that the identifier had been deleted before this call.
delete_document(id) ==
    LET result == RowsId(docs, id)
        again == id \in deleted
    IN  /\ api = Idle
        /\ budget.ops > 0
        /\ \E o \in Outcomes :
             /\ budget' = [Spend(o) EXCEPT !.ops = @ - 1]
             /\ IF o = "fail"
                THEN /\ UNCHANGED <<docs, files, deleted>>
                     /\ resp' = [op |-> "delete", code |-> 500, msg |-> "",
                                 id |-> id, again |-> again]
                ELSE /\ docs' = docs \ result
                     /\ files' = [p \in DOMAIN files |->
                                    IF \E r \in result : r.file_path = p
                                    THEN NoFile ELSE files[p]]
                     /\ deleted' = IF result # {} THEN deleted \cup {id}
                                   ELSE deleted
                     /\ resp' = [op |-> "delete", code |-> 200, msg |-> DeletedMsg,
                                 id |-> id, again |-> again]
        /\ UNCHANGED <<chatVars, nextId, processed_files, observing, events, th, api>>

\* ------------------------------------------------------------ rag_query
title_chars == 50
context_chars == 2000
default_top_k == 3

\* A token that stands for the separator "\n\n---\n\n" between context pieces.
SepTok == 10
Answer == <<7>>

NoSpeechMsg == "No speech detected"
NoAsrMsg == "Speech recognition not available"
EmptyMsg == "Message cannot be empty"

Prefix(s, n) == IF Len(s) > n THEN SubSeq(s, 1, n) ELSE s

Dot(a, b) == a[1] * b[1] + a[2] * b[2]

\* embedding <=> q (cosine distance) is smaller for a than for b.  The vectors
\* have no negative component, so the cosines compare as their squares.
Closer(a, b, q) == Dot(a, q) * Dot(a, q) * Dot(b, b) > Dot(b, q) * Dot(b, q) * Dot(a, a)

\* WHERE status = 'indexed' AND embedding IS NOT NULL AND content IS NOT NULL
Eligible(d) ==
    {r \in d : r.status = "indexed" /\ r.embedding # NULL /\ r.content # NULL}

Min(a, b) == IF a < b THEN a ELSE b

Injective(f) == \A i \in DOMAIN f : \A j \in DOMAIN f : f[i] = f[j] => i = j

\* Mutant: LIMIT k without the ORDER BY.
VectorSearch_Unordered(d, q, k) ==
    {f \in UNION {[1..n -> Eligible(d)] : n \in {Min(k, Cardinality(Eligible(d)))}} :
        Injective(f)}

\* ORDER BY embedding <=> q LIMIT k: every row order the store may return.
VectorSearch(d, q, k) ==
    {f \in UNION {[1..n -> Eligible(d)] : n \in {Min(k, Cardinality(Eligible(d)))}} :
        /\ Injective(f)
        /\ \A i \in DOMAIN f : \A j \in DOMAIN f :
             i < j => ~Closer(f[j].embedding, f[i].embedding, q)
        /\ \A r \in Eligible(d) :
             (\A i \in DOMAIN f : f[i] # r) =>
               \A i \in DOMAIN f : ~Closer(r.embedding, f[i].embedding, q)}

\* "\n\n---\n\n".join(doc["content"][:2000] for doc in context_docs if doc["content"])
RECURSIVE JoinContext(_)
JoinContext(rows) ==
    IF rows = <<>> THEN <<>>
    ELSE LET piece == Prefix(Head(rows).content, context_chars)
             rest == JoinContext(Tail(rows))
         IN  IF ~Truthy(Head(rows).content) THEN rest
             ELSE IF rest = <<>> THEN piece
             ELSE piece \o <<SepTok>> \o rest

\* The prompt: with the context framing when there is context, else the bare question.
BuildPrompt(context, query) ==
    IF context # <<>>
    THEN [kind |-> "context", context |-> context, question |-> query]
    ELSE [kind |-> "plain", context |-> <<>>, question |-> query]

NoPrompt == [kind |-> "none", context |-> <<>>, question |-> <<>>]
NoConv == 0
BadConv == -1

NoReq ==
    [kind |-> "none", pc |-> "done", conv |-> NoConv, return_audio |-> FALSE,
     audio |-> NULL, user_text |-> <<>>, top_k |-> default_top_k, emb |-> NULL,
     context_docs |-> <<>>, context |-> <<>>, prompt |-> NoPrompt,
     answer |-> NULL, speech |-> NULL, embfail |-> FALSE, queried |-> FALSE,
     synth |-> FALSE, convs0 |-> {}, messages0 |-> <<>>, conn |-> "none",
     search |-> "none", llmfail |-> FALSE, dbfail |-> FALSE]

NoOut ==
    [kind |-> "none", code |-> 0, error |-> "", user_text |-> <<>>,
     answer |-> NULL, conversation_id |-> NoConv, context_count |-> 0,
     context_docs |-> <<>>, audio |-> FALSE]

NewReq(kind, pc, text) ==
    [NoReq EXCEPT !.kind = kind, !.pc = pc, !.user_text = text,
                  !.convs0 = convs, !.messages0 = messages]

Failure(kind, code, error) ==
    [NoOut EXCEPT !.kind = kind, !.code = code, !.error = error]

docVars == <<docs, nextId, files, processed_files, observing, events, th, api, resp,
             deleted>>

\* Mutant: the embedding failure is not caught and becomes a 500.
rag_query_embed_Raises ==
    /\ req.pc = "rq_embed"
    /\ \E o \in {"ok", "fail"} :
         IF o = "ok"
         THEN /\ req' = [req EXCEPT !.pc = "rq_search", !.queried = TRUE,
                                    !.emb = get_embedding(req.user_text)]
              /\ out' = out
         ELSE /\ req' = [req EXCEPT !.pc = "done", !.queried = TRUE,
                                    !.embfail = TRUE]
              /\ out' = Failure(req.kind, 500, "embedding failed")
    /\ UNCHANGED <<docVars, budget, convs, nextConv, messages>>

\* POST /api/embeddings for the query; a failure is caught and leaves the context empty.
rag_query_embed ==
    /\ req.pc = "rq_embed"
    /\ \E o \in {"ok", "fail"} :
         req' = IF o = "ok"
                THEN [req EXCEPT !.pc = "rq_search", !.queried = TRUE,
                                 !.emb = get_embedding(req.user_text)]
                ELSE [req EXCEPT !.pc = "rq_llm", !.queried = TRUE,
                                 !.embfail = TRUE]
    /\ UNCHANGED <<docVars, budget, convs, nextConv, messages, out>>

\* WHERE status = 'indexed' AND content IS NOT NULL LIMIT k: any k such rows,
\* in any order.
FallbackSearch(d, k) ==
    LET rows == {r \in d : r.status = "indexed" /\ r.content # NULL}
    IN  {f \in UNION {[1..n -> rows] : n \in {Min(k, Cardinality(rows))}} :
            Injective(f)}

\* Mutant: a connection in autocommit, every statement its own transaction.
autocommit_On == TRUE

\* get_db() is psycopg2.connect(...) with no autocommit: the first statement
\* opens a transaction, and a statement that fails leaves it aborted.
autocommit == FALSE
AfterError(tx) == IF autocommit THEN "idle" ELSE "aborted"

\* A statement sent on an aborted transaction is refused (InFailedSqlTransaction).
Refused(tx) == tx = "aborted"

\* The retrieval block.  "down": get_db() raises.  "ok": the distance query
\* answers.  "novector": the distance query raises and the except clause sends
\* the fallback SELECT on the same cursor; when that is refused the exception
\* reaches the outer except clause and context_docs is left as it was.  The
\* with block ends the transaction, not the connection, which the handler's
\* local variable conn keeps until rag_query returns.
rag_query_search ==
    /\ req.pc = "rq_search"
    /\ \E o \in {"ok", "novector", "down"} :
         IF o = "down"
         THEN req' = [req EXCEPT !.pc = "rq_llm", !.search = "down"]
         ELSE IF o = "ok"
         THEN \E rows \in VectorSearch(docs, req.emb, req.top_k) :
                req' = [req EXCEPT !.pc = "rq_llm", !.conn = "open",
                                   !.search = "vector", !.context_docs = rows,
                                   !.context = JoinContext(rows)]
         ELSE LET tx == AfterError("open")
              IN  IF Refused(tx)
                  THEN req' = [req EXCEPT !.pc = "rq_llm", !.conn = "open",
                                          !.search = "refused"]
                  ELSE \E rows \in FallbackSearch(docs, req.top_k) :
                         req' = [req EXCEPT !.pc = "rq_llm", !.conn = "open",
                                            !.search = "fallback",
                                            !.context_docs = rows,
                                            !.context = JoinContext(rows)]
    /\ UNCHANGED <<docVars, budget, convs, nextConv, messages, out>>

\* Where a handler goes once rag_query has returned its answer.
AfterQuery(r) ==
    IF r.kind = "chat" THEN "persist"
    ELSE IF r.kind = "voice" THEN "tts"
    ELSE "done"

QueryOut(r, answer) ==
    [NoOut EXCEPT !.kind = "query", !.code = 200, !.answer = answer,
                  !.context_count = Len(r.context_docs),
                  !.context_docs = [i \in DOMAIN r.context_docs |->
                                      r.context_docs[i].id]]

\* Mutant: a failed completion is answered with a stock sentence.
rag_query_generate_Default ==
    /\ req.pc = "rq_llm"
    /\ \E o \in {"ok", "fail"} :
         LET r1 == [req EXCEPT !.prompt = BuildPrompt(req.context, req.user_text),
                               !.conn = "none", !.llmfail = (o = "fail")]
         IN  /\ req' = [r1 EXCEPT !.answer = Answer, !.pc = AfterQuery(req)]
             /\ out' = IF req.kind = "query" THEN QueryOut(req, Answer) ELSE out
    /\ UNCHANGED <<docVars, budget, convs, nextConv, messages>>

\* POST /api/generate, then rag_query returns; a failure is a 500 for the
\* request, also through chat and voice_chat.
rag_query_generate ==
    /\ req.pc = "rq_llm"
    /\ \E o \in {"ok", "fail"} :
         LET r1 == [req EXCEPT !.prompt = BuildPrompt(req.context, req.user_text),
                               !.conn = "none", !.llmfail = (o = "fail")]
         IN  IF o = "ok"
             THEN /\ req' = [r1 EXCEPT !.answer = Answer, !.pc = AfterQuery(req)]
                  /\ out' = IF req.kind = "query" THEN QueryOut(req, Answer)
                            ELSE out
             ELSE /\ req' = [r1 EXCEPT !.pc = "done"]
                  /\ out' = Failure(req.kind, 500, "generate failed")
    /\ UNCHANGED <<docVars, budget, convs, nextConv, messages>>

\* POST /api/rag-query {query, top_k}
rag_query(query, k) ==
    /\ req.pc = "done"
    /\ budget.turns > 0
    /\ budget' = [budget EXCEPT !.turns = @ - 1]
    /\ req' = [NewReq("query", "rq_embed", query) EXCEPT !.top_k = k]
    /\ out' = NoOut
    /\ UNCHANGED <<docVars, convs, nextConv, messages>>

\* ------------------------------------------------------- chat, voice_chat
\* POST /api/chat {message, conversation_id}
chat(message, conv) ==
    /\ req.pc = "done"
    /\ budget.turns > 0
    /\ budget' = [budget EXCEPT !.turns = @ - 1]
    /\ IF Strip(message) = <<>>
       THEN /\ req' = [NewReq("chat", "done", <<>>) EXCEPT !.conv = conv]
            /\ out' = Failure("chat", 400, EmptyMsg)
       ELSE /\ req' = [NewReq("chat", "rq_embed", Strip(message)) EXCEPT
                         !.conv = conv]
            /\ out' = NoOut
    /\ UNCHANGED <<docVars, convs, nextConv, messages>>

\* POST /api/voice-chat {audio_data, conversation_id, return_audio}; the audio
\* is given by the words spoken in it.
voice_chat(audio, conv, return_audio) ==
    /\ req.pc = "done"
    /\ budget.turns > 0
    /\ budget' = [budget EXCEPT !.turns = @ - 1]
    /\ req' = [NewReq("voice", "asr", <<>>) EXCEPT
                 !.conv = conv, !.audio = audio, !.return_audio = return_audio]
    /\ out' = NoOut
    /\ UNCHANGED <<docVars, convs, nextConv, messages>>

\* Mutant: the "if not user_text" check is missing.
voice_chat_transcribe_NoCheck ==
    /\ req.pc = "asr"
    /\ \E o \in {"service", "local", "none"} :
         IF o = "none"
         THEN /\ req' = [req EXCEPT !.pc = "done"]
              /\ out' = [Failure("voice", 200, NoAsrMsg) EXCEPT !.user_text = <<>>]
         ELSE /\ req' = [req EXCEPT !.pc = "persist",
                                    !.user_text = Strip(req.audio),
                                    !.answer = Answer]
              /\ out' = out
    /\ UNCHANGED <<docVars, budget, convs, nextConv, messages>>

\* Transcription: the speech service, else the in-process model, else an error
\* response; an empty transcript is answered "No speech detected".
voice_chat_transcribe ==
    /\ req.pc = "asr"
    /\ \E o \in {"service", "local", "none"} :
         LET text == IF o = "none" THEN <<>> ELSE Strip(req.audio)
         IN  IF o = "none"
             THEN /\ req' = [req EXCEPT !.pc = "done"]
                  /\ out' = [Failure("voice", 200, NoAsrMsg) EXCEPT
                               !.user_text = <<>>]
             ELSE IF text = <<>>
             THEN /\ req' = [req EXCEPT !.pc = "done"]
                  /\ out' = [Failure("voice", 200, NoSpeechMsg) EXCEPT
                               !.user_text = <<>>]
             ELSE /\ req' = [req EXCEPT !.pc = "rq_embed", !.user_text = text]
                  /\ out' = out
    /\ UNCHANGED <<docVars, budget, convs, nextConv, messages>>

\* text_to_speech(answer) when audio was asked for and edge-tts is installed;
\* a synthesis failure gives no audio.
voice_chat_synthesize ==
    /\ req.pc = "tts"
    /\ \E tts_available \in BOOLEAN, o \in {"ok", "fail"} :
         req' = IF req.return_audio /\ tts_available
                THEN [req EXCEPT !.pc = "persist", !.synth = TRUE,
                                 !.speech = IF o = "ok" THEN req.answer ELSE NULL]
                ELSE [req EXCEPT !.pc = "persist"]
    /\ UNCHANGED <<docVars, budget, convs, nextConv, messages, out>>

\* conversations.title: the first 50 characters, with "..." after a longer chat message.
Ellipsis == <<11, 11, 11>>
Title(kind, text) ==
    IF kind = "chat" /\ Len(text) > title_chars
    THEN SubSeq(text, 1, title_chars) \o Ellipsis
    ELSE Prefix(text, title_chars)

TurnOut(r, conv) ==
    [NoOut EXCEPT !.kind = r.kind, !.code = 200, !.user_text = r.user_text,
                  !.answer = r.answer, !.conversation_id = conv,
                  !.context_count = Len(r.context_docs),
                  !.audio = (r.speech # NULL)]

\* "Save to database": one transaction; any exception rolls it back and is
\* logged, and the response is sent all the same.  int(conversation_id) of a
\* non-numeric identifier raises after the INSERTs before it.  The outcome says
\* how far the three INSERTs got; what a statement wrote is kept when the
\* transaction commits (or, were the connection in autocommit, as soon as it ran).
persist_turn ==
    /\ req.pc = "persist"
    /\ \E o \in {"ok", "fail", "fail_after_create", "fail_after_user"} :
         LET creates == req.conv = NoConv
             cid == IF creates THEN nextConv ELSE req.conv
             commits == o = "ok" /\ cid # BadConv
             reached == creates /\ o # "fail"
             user == o \in {"ok", "fail_after_user"} /\ cid # BadConv
             Kept(ran) == ran /\ (commits \/ autocommit)
         IN  /\ nextConv' = IF reached THEN nextConv + 1 ELSE nextConv
             /\ convs' = IF Kept(reached)
                         THEN convs \cup {[id |-> cid,
                                           title |-> Title(req.kind, req.user_text)]}
                         ELSE convs
             /\ messages' = messages
                    \o (IF Kept(user)
                        THEN <<[conversation_id |-> cid, role |-> "user",
                                content |-> req.user_text]>>
                        ELSE <<>>)
                    \o (IF Kept(commits)
                        THEN <<[conversation_id |-> cid, role |-> "assistant",
                                content |-> req.answer]>>
                        ELSE <<>>)
             /\ out' = TurnOut(req, IF reached THEN cid ELSE req.conv)
             /\ req' = [req EXCEPT !.pc = "done", !.dbfail = (o # "ok")]
    /\ UNCHANGED <<docVars, budget>>

\* ------------------------------------------------------------ specification
Init ==
    /\ docs = {}
    /\ nextId = 1
    /\ files = [p \in Paths |-> NoFile]
    /\ processed_files = {}
    /\ observing = FALSE
    /\ events = <<>>
    /\ th = [t \in Threads |->
               IF t = "main" THEN ThreadInit("pp_query") ELSE ThreadInit("ev_idle")]
    /\ api = Idle
    /\ resp = NoResp
    /\ deleted = {}
    /\ budget = [ops |-> MaxOps, drops |-> MaxDrops, faults |-> MaxFaults,
                 turns |-> MaxTurns, storefails |-> 0]
    /\ convs = {}
    /\ nextConv = 1
    /\ messages = <<>>
    /\ req = NoReq
    /\ out = NoOut

IndexerStep(t) ==
    \/ update_document_status_select(t)
    \/ update_document_status_write(t)
    \/ index_document_check(t)
    \/ index_document_extract(t)
    \/ index_document_embed(t)
    \/ index_document_add(t)

MainStep ==
    \/ process_pending_documents_query
    \/ process_pending_documents_next
    \/ index_existing_files_start
    \/ index_existing_files_next
    \/ main_observe

EventStep ==
    \/ on_created
    \/ on_modified

ApiStep ==
    \/ \E p \in Paths, body \in Bodies : upload_document_save(p, body)
    \/ upload_document_insert
    \/ \E id \in 1..nextId : delete_document(id)

Next ==
    \/ \E t \in Threads : IndexerStep(t)
    \/ MainStep
    \/ EventStep
    \/ ApiStep
    \/ \E p \in Paths, body \in Bodies : FileDrop(p, body)

Spec == Init /\ [][Next]_vars

\* The query side: the API's chat, voice and query handlers over a store that
\* the indexer has filled.
Utterances == {<<>>, <<0>>, <<1, 0>>, <<0, 2>>}

IndexedRow(id, p, text) ==
    NewRow(id, p, "indexed", TruncateText(text), get_embedding(TruncateText(text)))

SampleRows ==
    {IndexedRow(1, "a.txt", <<1>>),
     IndexedRow(2, "b.txt", <<2, 2>>),
     IndexedRow(3, "c.txt", <<1, 2>>),
     NewRow(4, "d.txt", "pending", NULL, NULL),
     [IndexedRow(5, "e.txt", <<2>>) EXCEPT !.status = "error",
                                           !.error_message = EmbedErrMsg]}

QueryInit ==
    /\ docs \in SUBSET SampleRows
    /\ nextId = 6
    /\ files = [p \in Paths |-> NoFile]
    /\ processed_files = {}
    /\ observing = FALSE
    /\ events = <<>>
    /\ th = [t \in Threads |->
               IF t = "main" THEN ThreadInit("pp_query") ELSE ThreadInit("ev_idle")]
    /\ api = Idle
    /\ resp = NoResp
    /\ deleted = {}
    /\ budget = [ops |-> 0, drops |-> 0, faults |-> 0, turns |-> MaxTurns, storefails |-> 0]
    /\ convs = {}
    /\ nextConv = 1
    /\ messages = <<>>
    /\ req = NoReq
    /\ out = NoOut

RagStep ==
    \/ rag_query_embed
    \/ rag_query_search
    \/ rag_query_generate

QueryNext ==
    \/ \E q \in {Strip(u) : u \in Utterances} \ {<<>>}, k \in {1, default_top_k} :
         rag_query(q, k)
    \/ \E m \in Utterances, c \in {NoConv, BadConv} \cup {x.id : x \in convs} :
         chat(m, c)
    \/ \E a \in Utterances, c \in {NoConv, BadConv} \cup {x.id : x \in convs},
          ra \in BOOLEAN :
         voice_chat(a, c, ra)
    \/ voice_chat_transcribe
    \/ voice_chat_synthesize
    \/ RagStep
    \/ persist_turn

SpecQuery == QueryInit /\ [][QueryNext]_vars

\* The indexer alone at start-up over a folder that holds one long document,
\* recorded as pending or not recorded at all.
LongText(n, k) == [i \in 1..n |-> 1 + ((i + k) % 2)]

LongBodies ==
    {pad \o LongText(n, k) \o pad :
        n \in ((max_chars - TruncSlack)..(max_chars + TruncSlack)) \cup {SampleLen},
        k \in {0, 1},
        pad \in {<<>>, <<0>>}}

TruncInit ==
    /\ files \in [Paths -> LongBodies]
    /\ docs \in {{}, {NewRow(1, "a.txt", "pending", NULL, NULL)}}
    /\ nextId = 2
    /\ processed_files = {}
    /\ observing = FALSE
    /\ events = <<>>
    /\ th = [t \in Threads |->
               IF t = "main" THEN ThreadInit("pp_query") ELSE ThreadInit("ev_idle")]
    /\ api = Idle
    /\ resp = NoResp
    /\ deleted = {}
    /\ budget = [ops |-> 0, drops |-> 0, faults |-> 0, turns |-> 0, storefails |-> 0]
    /\ convs = {}
    /\ nextConv = 1
    /\ messages = <<>>
    /\ req = NoReq
    /\ out = NoOut

TruncNext ==
    \/ MainStep
    \/ IndexerStep("main")

SpecTrunc == TruncInit /\ [][TruncNext]_vars

\* The indexer's start-up (reconciliation pass, sweep, observer start, loop)
\* over a folder and a table left by an earlier run: a text file, a file of
\* blanks, a hidden file and a file of an unsupported type, each recorded or
\* not, the text file possibly gone from disk.
StartupFiles ==
    {[a |-> fa, b |-> <<0>>, h |-> <<1, 0>>, n |-> <<2>>] :
        fa \in {<<1, 0>>, NoFile}}

StartupRows ==
    {NewRow(1, "a.txt", "pending", NULL, NULL),
     IndexedRow(1, "a.txt", <<1>>),
     NewRow(2, "b.md", "pending", NULL, NULL),
     NewRow(3, ".h.txt", "pending", NULL, NULL),
     NewRow(4, "n.bin", "pending", NULL, NULL)}

StartupInit ==
    /\ \E f \in StartupFiles :
         files = [p \in {"a.txt", "b.md", ".h.txt", "n.bin"} |->
                    IF p = "a.txt" THEN f.a
                    ELSE IF p = "b.md" THEN f.b
                    ELSE IF p = ".h.txt" THEN f.h ELSE f.n]
    /\ docs \in {d \in SUBSET StartupRows :
                    \A r1 \in d : \A r2 \in d : r1.id = r2.id => r1 = r2}
    /\ nextId = 5
    /\ processed_files = {}
    /\ observing = FALSE
    /\ events = <<>>
    /\ th = [t \in Threads |->
               IF t = "main" THEN ThreadInit("pp_query") ELSE ThreadInit("ev_idle")]
    /\ api = Idle
    /\ resp = NoResp
    /\ deleted = {}
    /\ budget = [ops |-> 0, drops |-> 0, faults |-> MaxFaults, turns |-> 0, storefails |-> 0]
    /\ convs = {}
    /\ nextConv = 1
    /\ messages = <<>>
    /\ req = NoReq
    /\ out = NoOut

SpecStartup == StartupInit /\ [][TruncNext]_vars

\* The same program when the store and the backends always respond, with the
\* scheduling the processes have: each indexer thread keeps running, and an
\* upload that has saved its file goes on to its INSERT.
LiveInit ==
    /\ docs = {}
    /\ nextId = 1
    /\ files = [p \in Paths |-> NoFile]
    /\ processed_files = {}
    /\ observing = FALSE
    /\ events = <<>>
    /\ th = [t \in Threads |->
               IF t = "main" THEN ThreadInit("pp_query") ELSE ThreadInit("ev_idle")]
    /\ api = Idle
    /\ resp = NoResp
    /\ deleted = {}
    /\ budget = [ops |-> MaxOps, drops |-> MaxDrops, faults |-> 0,
                 turns |-> MaxTurns, storefails |-> 0]
    /\ convs = {}
    /\ nextConv = 1
    /\ messages = <<>>
    /\ req = NoReq
    /\ out = NoOut

LiveSpec ==
    /\ LiveInit
    /\ [][Next]_vars
    /\ WF_vars(MainStep \/ IndexerStep("main"))
    /\ WF_vars(EventStep \/ IndexerStep("event"))
    /\ WF_vars(upload_document_insert)

\* ================================================================== claims
Running(t) == th[t].pc \in {"idx_check", "idx_extract", "idx_embed", "idx_add",
                            "upd_select", "upd_write"}
Steps(t) == th'[t] # th[t]

\* C1: in every reachable state the store holds at most one document record per
\* file path, whatever uploads, indexing runs, reconciliation passes and deletes
\* have happened.
C1_OneRecordPerPath ==
    \A r1 \in docs : \A r2 \in docs : r1.file_path = r2.file_path => r1 = r2

\* A recorded path has been indexed again by an event after a second INSERT of
\* the same path was attempted: still the first record.
C1_Witness ==
    /\ th["event"].pc = "idx_add"
    /\ nextId > 2
    /\ \E r \in docs :
         r.id = 1 /\ r.file_path = th["event"].fp /\ r.status = "indexed"

\* C2: every record whose status is indexed has content and an embedding.
C2_IndexedHasContent ==
    \A r \in docs :
        r.status = "indexed" => r.content # NULL /\ r.embedding # NULL

\* An uploaded (pending, empty) record that failed once and was then indexed.
C2_Witness ==
    \E r \in docs :
        r.status = "indexed" /\ r.error_message # NoMsg /\ resp.id = r.id

\* C3: a delete that finds the record removes the record and its backing file;
\* a delete of an identifier that has no record (a second delete) changes
\* neither the table nor the folder; both answer "Document deleted".
DeleteStep(id) ==
    /\ api = Idle
    /\ api' = Idle
    /\ budget'.ops = budget.ops - 1
    /\ resp'.op = "delete"
    /\ resp'.id = id
    /\ resp'.code = 200

C3_DeleteIdempotent ==
    [][\A id \in 1..(MaxOps + MaxDrops + 2) :
         DeleteStep(id) =>
           /\ resp'.msg = DeletedMsg
           /\ RowsId(docs', id) = {}
           /\ \A r \in RowsId(docs, id) : files'[r.file_path] = NoFile
           /\ RowsId(docs, id) = {} => docs' = docs /\ files' = files]_vars

\* The same identifier has been deleted twice, both times acknowledged.
C3_Witness ==
    resp.op = "delete" /\ resp.code = 200 /\ resp.again /\ resp.msg = DeletedMsg

\* C6: when the pipeline has processed a file that had no record, a record for
\* the path exists with status indexed or error.
C6_DiscoveredFileGetsRecord ==
    [][\A t \in Threads :
         (/\ Steps(t)
          /\ Running(t)
          /\ ~Running(t)'
          /\ th[t].fresh
          /\ th[t].raw # NULL
          /\ budget'.faults = MaxFaults
          /\ budget'.ops = MaxOps)
         => \E r \in docs' :
              r.file_path = th[t].fp /\ r.status \in {"indexed", "error"}]_vars

\* C7: when extraction returns the empty string, the run ends with the
\* document's status error and the message "No text could be extracted from
\* file"; no embedding was requested, no content is stored and the path is not
\* in the processed cache because of this run.
C7_EmptyTextSetsError ==
    [][\A t \in Threads :
         (/\ Steps(t)
          /\ Running(t)
          /\ ~Running(t)'
          /\ th[t].raw = <<>>
          /\ budget'.faults = MaxFaults)
         => /\ th[t].emb = NULL
            /\ processed_files' = processed_files
            /\ \E r \in docs' :
                 /\ r.file_path = th[t].fp
                 /\ r.status = "error"
                 /\ r.error_message = NoTextMsg]_vars

\* What the code does on empty text: it calls update_document_status(path,
\* "error", "No text could be extracted from file") and returns; the record the
\* update selects, if there is one, gets status error and that message, its
\* content and embedding stay as they were, no embedding is requested and the
\* path does not enter the processed cache.
EmptyTextStops ==
    [][\A t \in Threads :
         /\ (/\ Steps(t)
             /\ th[t].pc = "idx_extract"
             /\ extract_text_from_file(th[t].fp, files[th[t].fp]) = <<>>)
            => /\ th'[t].pc = "upd_select"
               /\ th'[t].upd = [status |-> "error", msg |-> NoTextMsg,
                                content |-> NULL, embedding |-> NULL,
                                ret |-> th[t].ret]
               /\ th'[t].emb = NULL
               /\ docs' = docs
               /\ processed_files' = processed_files
         /\ (/\ Steps(t)
             /\ th[t].pc \in {"upd_select", "upd_write"}
             /\ th[t].upd.msg = NoTextMsg)
            => /\ th'[t].pc \in {"upd_write", th[t].upd.ret}
               /\ th[t].upd.ret \notin IndexPcs
               /\ processed_files' = processed_files
               /\ th[t].pc = "upd_select" => docs' = docs
               /\ th[t].pc = "upd_write" =>
                    /\ Cardinality(docs') = Cardinality(docs)
                    /\ \A r \in docs :
                         IF r.id = th[t].sel
                         THEN [r EXCEPT !.status = "error",
                                        !.error_message = NoTextMsg] \in docs'
                         ELSE r \in docs']_vars

\* A record in error with the extraction message, its run over.
EmptyTextStops_Witness ==
    \E r \in docs :
        /\ r.status = "error"
        /\ r.error_message = NoTextMsg
        /\ r.content = NULL
        /\ r.file_path \notin processed_files
        /\ \A t \in Threads : ~Running(t)

\* C8: when the embedding backend fails, the run ends, inside index_document,
\* with the document's status error and the exception text as its message; the
\* record is not indexed and the path is not in the processed cache because of
\* this run.
C8_EmbedFailureSetsError ==
    [][\A t \in Threads :
         (/\ Steps(t)
          /\ Running(t)
          /\ ~Running(t)'
          /\ th[t].exc # NoMsg
          /\ budget'.faults = MaxFaults - 1)
         => /\ th'[t].pc = th[t].upd.ret
            /\ processed_files' = processed_files
            /\ \E r \in docs' :
                 /\ r.file_path = th[t].fp
                 /\ r.status = "error"
                 /\ r.error_message = th[t].exc]_vars

\* What the code does on an embedding failure: the exception is caught inside
\* index_document, which calls update_document_status(path, "error", <exception
\* text>) and returns to its caller; the record the update selects, if there is
\* one, gets status error and that text, and the path does not enter the
\* processed cache.
EmbedFailureRecorded ==
    [][\A t \in Threads :
         /\ (/\ Steps(t)
             /\ th[t].pc = "idx_embed"
             /\ th'[t].exc # NoMsg)
            => /\ th'[t].pc = "upd_select"
               /\ th'[t].upd = [status |-> "error", msg |-> EmbedErrMsg,
                                content |-> NULL, embedding |-> NULL,
                                ret |-> th[t].ret]
               /\ docs' = docs
               /\ processed_files' = processed_files
         /\ (/\ Steps(t)
             /\ th[t].pc \in {"upd_select", "upd_write"}
             /\ th[t].exc # NoMsg)
            => /\ th'[t].pc \in {"upd_write", th[t].upd.ret}
               /\ th[t].upd.ret \notin IndexPcs
               /\ processed_files' = processed_files
               /\ th[t].pc = "upd_write" =>
                    /\ Cardinality(docs') = Cardinality(docs)
                    /\ \A r \in docs' :
                         r.id = th[t].sel =>
                           r.status = "error" /\ r.error_message = EmbedErrMsg]_vars

\* A record in error with the exception text, its run over, the path not cached.
EmbedFailureRecorded_Witness ==
    \E r \in docs :
        /\ r.status = "error"
        /\ r.error_message = EmbedErrMsg
        /\ r.file_path \notin processed_files
        /\ \A t \in Threads : ~Running(t)

\* C5: every pending record whose file is on disk eventually leaves the pending
\* status, given that the reconciliation loop keeps running and the store and
\* the embedding backend respond.
PendingOnDisk(p) ==
    /\ files[p] # NoFile
    /\ \E r \in docs : r.file_path = p /\ r.status = "pending"

C5_PendingEventuallyLeaves ==
    \A p \in Paths : PendingOnDisk(p) ~> ~PendingOnDisk(p)

\* C4: a voice turn whose transcript is empty is answered "No speech detected"
\* with an empty transcript; it creates no conversation, appends no message,
\* and runs neither the retrieval-augmented query nor the synthesis.
C4_EmptyTranscript ==
    (/\ req.kind = "voice"
     /\ req.pc # "asr"
     /\ Strip(req.audio) = <<>>
     /\ out.error # NoAsrMsg)
    => /\ req.pc = "done"
       /\ out.error = NoSpeechMsg
       /\ out.user_text = <<>>
       /\ out.answer = NULL
       /\ ~req.queried
       /\ ~req.synth
       /\ convs = req.convs0
       /\ messages = req.messages0

\* A silent voice turn answered after an earlier turn had been persisted.
C4_Witness ==
    /\ req.kind = "voice"
    /\ req.audio = <<0>>
    /\ out.error = NoSpeechMsg
    /\ messages # <<>>

\* C9: the text sent to the embedding backend, and stored as the record's
\* content, is the first min(n, 8000) characters of the n extracted characters.
FirstChars(s, m) == [i \in 1..m |-> s[i]]

Sent(t) == FirstChars(th[t].raw, Min(Len(th[t].raw), 8000))

C9_TruncatedPrefix ==
    \A t \in Threads :
        (th[t].raw # NULL /\ th[t].raw # <<>>) =>
          /\ th[t].text = Sent(t)
          /\ Len(th[t].raw) = 10000 => Len(th[t].text) = 8000
          /\ th[t].upd.status = "indexed" =>
               /\ th[t].upd.content = Sent(t)
               /\ th[t].upd.embedding = get_embedding(Sent(t))
          /\ th[t].pc = "idx_add" =>
               \E r \in docs :
                   /\ r.file_path = th[t].fp
                   /\ r.content = Sent(t)
                   /\ r.embedding = get_embedding(Sent(t))

\* A 10000-character body has been indexed: 8000 characters are stored.
C9_Witness ==
    /\ th["main"].pc = "idx_add"
    /\ Len(th["main"].raw) = 10000
    /\ \E r \in docs : r.status = "indexed" /\ Len(r.content) = 8000

\* C10: when the query-embedding request fails the query goes on with no
\* context: no rows, the prompt without context, the completion requested, and
\* an answer returned with an empty document list and count 0; only a failed
\* completion makes it an error.
C10_EmbeddingFailureDegrades ==
    req.embfail =>
      /\ req.pc \in {"rq_llm", "tts", "persist", "done"}
      /\ req.context_docs = <<>>
      /\ req.context = <<>>
      /\ req.pc # "rq_llm" => req.prompt.kind = "plain"
      /\ (req.pc = "done" /\ req.answer # NULL) =>
           /\ out.code = 200
           /\ out.error = ""
           /\ out.answer = req.answer
           /\ out.context_docs = <<>>
           /\ out.context_count = 0
      /\ (req.pc = "done" /\ req.answer = NULL) => out.code = 500

\* A direct query answered without context although the store holds indexed rows.
C10_Witness ==
    /\ req.embfail
    /\ req.kind = "query"
    /\ req.pc = "done"
    /\ out.code = 200
    /\ out.answer = Answer
    /\ Eligible(docs) # {}

\* C11: when the query embedding was obtained and the distance query answered,
\* the retrieved rows are at most K, each is an indexed row with content and
\* embedding, they come in ascending distance to the query embedding, no
\* eligible row left out is closer than a row taken, and the nearest eligible
\* row is first.
C11_NearestFirst ==
    req.search = "vector" =>
      LET rows == req.context_docs
          q == req.emb
          taken == {rows[i] : i \in DOMAIN rows}
      IN  /\ q = get_embedding(req.user_text)
          /\ Len(rows) <= req.top_k
          /\ \A r \in taken :
                /\ r \in docs
                /\ r.status = "indexed"
                /\ r.embedding # NULL
                /\ r.content # NULL
          /\ \A i \in DOMAIN rows : \A j \in DOMAIN rows :
                i < j => ~Closer(rows[j].embedding, rows[i].embedding, q)
          /\ \A r \in Eligible(docs) \ taken : \A x \in taken :
                ~Closer(r.embedding, x.embedding, q)
          /\ Eligible(docs) # {} =>
                /\ rows # <<>>
                /\ \A r \in Eligible(docs) :
                      ~Closer(r.embedding, rows[1].embedding, q)

\* K = 1 over three indexed rows and a row in error that is nearer than all of
\* them: one row is retrieved, and two indexed rows are strictly farther.
C11_Witness ==
    /\ req.search = "vector"
    /\ req.kind = "query"
    /\ req.pc = "done"
    /\ req.top_k = 1
    /\ Len(req.context_docs) = 1
    /\ Cardinality(Eligible(docs)) = 3
    /\ \E r \in docs : r.status = "error" /\ r.embedding = req.emb
    /\ \E r \in Eligible(docs) :
         Closer(req.context_docs[1].embedding, r.embedding, req.emb)

\* C12: when the completion request fails the request ends in a server error
\* with no answer, and a chat or voice turn has created no conversation and
\* stored no message.
C12_CompletionFailureIsError ==
    req.llmfail =>
      /\ req.pc = "done"
      /\ req.answer = NULL
      /\ out.kind = req.kind
      /\ out.code = 500
      /\ out.answer = NULL
      /\ convs = req.convs0
      /\ messages = req.messages0

\* A chat turn without a conversation failed at the completion after an
\* earlier turn had been stored.
C12_Witness ==
    /\ req.llmfail
    /\ req.kind = "chat"
    /\ req.conv = NoConv
    /\ req.pc = "done"
    /\ messages # <<>>

\* C13: a chat or voice turn that returns an answer, the store having answered,
\* has appended the user message and then the assistant message to the given
\* conversation, or to a new one whose identifier it returns; what was in the
\* log before is still there.
C13_AnsweredTurnPersisted ==
    [][(/\ req.pc = "persist"
        /\ req'.pc = "done"
        /\ ~req'.dbfail
        /\ out'.code = 200
        /\ out'.answer # NULL)
       => \E cid \in {req.conv, nextConv} :
            /\ messages' = messages \o
                 <<[conversation_id |-> cid, role |-> "user",
                    content |-> req.user_text],
                   [conversation_id |-> cid, role |-> "assistant",
                    content |-> req.answer]>>
            /\ out'.conversation_id = cid
            /\ req.conv # NoConv => cid = req.conv /\ convs' = convs
            /\ req.conv = NoConv =>
                 /\ cid \notin {c.id : c \in convs}
                 /\ cid \in {c.id : c \in convs'}]_vars

\* The message log is append-only: a step adds nothing or one turn's two
\* messages at the end.
MessagesAppendOnly ==
    [][\E n \in {0, 2} :
         /\ Len(messages') = Len(messages) + n
         /\ SubSeq(messages', 1, Len(messages)) = messages]_vars

\* C17: when the store cannot evaluate the distance operator, the rows come
\* from the fallback query, up to K indexed rows with content, and the answer's
\* context and retrieved count come from those rows.
C17_FallbackRows ==
    req.search \in {"refused", "fallback"} =>
      /\ req.context_docs \in FallbackSearch(docs, req.top_k)
      /\ req.context = JoinContext(req.context_docs)
      /\ (req.kind = "query" /\ req.pc = "done" /\ req.answer # NULL) =>
           /\ out.code = 200
           /\ out.context_count = Len(req.context_docs)

\* C18: no store connection is open while a request to the speech, embedding
\* or completion backend is in flight.
NetworkPcs == {"asr", "rq_embed", "rq_llm", "tts"}

C18_NoConnectionAcrossCalls ==
    req.pc \in NetworkPcs => req.conn = "none"

\* C14: a reconciliation pass selects exactly the records that are pending at
\* its query and handles each of them: index_document runs on the path when
\* the file exists, else update_document_status(path, "error", "File not found
\* on disk") is called and sets that status and message on the record; the
\* pass ends when none is left.
PendingPaths == {r.file_path : r \in {x \in docs : x.status = "pending"}}

C14_ReconciliationPass ==
    [][LET s == th["main"]
           s1 == th'["main"]
       IN  /\ (s.pc = "pp_query" /\ s1.pc = "pp_loop") => s1.todo = PendingPaths
           /\ (s.pc = "pp_query" /\ s1.pc # "pp_loop" /\ budget' = budget) =>
                PendingPaths = {}
           /\ (s.pc = "pp_loop" /\ s1 # s) =>
                IF s.todo = {} THEN s1.pc = AfterPass(s)
                ELSE \E p \in s.todo :
                       /\ s1.todo = s.todo \ {p}
                       /\ s1.fp = p
                       /\ IF files[p] # NoFile
                          THEN s1.pc = "idx_check" /\ s1.ret = "pp_loop"
                          ELSE /\ s1.pc = "upd_select"
                               /\ s1.upd = [status |-> "error", msg |-> NotFoundMsg,
                                            content |-> NULL, embedding |-> NULL,
                                            ret |-> "pp_loop"]
           /\ (s.pc = "upd_select" /\ s.upd.msg = NotFoundMsg /\ s1 # s
               /\ budget' = budget) =>
                /\ s1.pc = "upd_write"
                /\ RowsAt(docs, s.fp) # {} => s1.sel \in {r.id : r \in RowsAt(docs, s.fp)}
           /\ (s.pc = "upd_write" /\ s.upd.msg = NotFoundMsg /\ s1 # s) =>
                /\ s1.pc = "pp_loop"
                /\ \A r \in docs :
                     IF r.id = s.sel
                     THEN [r EXCEPT !.status = "error",
                                    !.error_message = NotFoundMsg] \in docs'
                     ELSE r \in docs']_vars

\* A pass has handled both cases: the record of a file that is gone is in error
\* "File not found on disk", and a pending record whose file exists has been
\* indexed; a record that was indexed at the query is as it was.
C14_Witness ==
    /\ th["main"].phase = "startup"
    /\ th["main"].pc = "sw_start"
    /\ \E r \in docs :
         r.file_path = "a.txt" /\ r.status = "error" /\ r.error_message = NotFoundMsg
    /\ \E r \in docs : r.file_path = ".h.txt" /\ r.status = "indexed"
    /\ files["a.txt"] = NoFile

\* C16: the sweep, for a file that is not hidden and has a supported extension:
\* a record read as indexed puts the path in the processed cache and
\* index_document is not run; a record read as pending, or no record, runs
\* index_document on the path.  Hidden files and unsupported extensions are
\* skipped, and no run of index_document started by the sweep is on one.
C16_SweepCases ==
    [][LET s == th["main"]
           s1 == th'["main"]
       IN  /\ (s.pc = "sw_start" /\ s1 # s) =>
                s1.todo = {p \in DOMAIN files : files[p] # NoFile}
           /\ (s.pc = "sw_loop" /\ s1 # s /\ s.todo # {}) =>
                \E p \in s.todo :
                  /\ s1.todo = s.todo \ {p}
                  /\ IF Hidden(p) \/ Suffix(p) \notin supported_extensions
                     THEN s1.pc = "sw_loop" /\ processed_files' = processed_files
                     ELSE (files[p] # NoFile /\ budget' = budget) =>
                          LET st == {r.status : r \in RowsAt(docs, p)}
                          IN  /\ st = {"indexed"} =>
                                   /\ s1.pc = "sw_loop"
                                   /\ processed_files' = processed_files \cup {p}
                              /\ (st = {} \/ st = {"pending"}) =>
                                   /\ s1.pc = "idx_check"
                                   /\ s1.fp = p
                                   /\ processed_files' = processed_files
           /\ s1.via = "sweep" =>
                ~Hidden(s1.fp) /\ Suffix(s1.fp) \in supported_extensions]_vars

\* The sweep is over: it has taken the indexed text file into the cache without
\* running on it, has run on the unrecorded file of blanks (no record came of
\* it), and has left the hidden and the unsupported file's pending records.
C16_Witness ==
    /\ th["main"].pc = "obs_start"
    /\ "a.txt" \in processed_files
    /\ \E r \in docs : r.file_path = "a.txt" /\ r.status = "indexed" /\ r.content = <<1>>
    /\ \E r \in docs : r.file_path = ".h.txt" /\ r.status = "pending"
    /\ \E r \in docs : r.file_path = "n.bin" /\ r.status = "pending"
    /\ RowsAt(docs, "b.md") = {}
    /\ budget.faults = 0

\* C15: the run of index_document that a modification event starts is not
\* skipped as already processed: its cache check goes on to mark the record
\* processing, whatever the other thread does between the eviction and the
\* run, with the store and the backend answering every call.
C15_ModifiedRunNotSkipped ==
    [][(/\ th["event"].pc = "idx_check"
        /\ th["event"].via = "modified"
        /\ budget.faults = MaxFaults
        /\ Steps("event"))
       => /\ th'["event"].pc = "upd_select"
          /\ th'["event"].upd.status = "processing"]_vars

\* C19: once a delete has completed, no record for the deleted document's path
\* exists for as long as the file has not been uploaded or created again, with
\* the store answering every call.
C19_NoRecordAfterDelete ==
    (deleted # {} /\ budget.faults = MaxFaults) =>
      \A p \in Paths : files[p] = NoFile => RowsAt(docs, p) = {}

\* C20: a path enters the processed cache only while the store holds a record
\* for it with status indexed, here with no upload or delete in play.
C20_CachedMeansIndexed ==
    [][\A p \in Paths :
         (/\ p \in processed_files'
          /\ p \notin processed_files
          /\ budget.ops = MaxOps)
         => \E r \in docs : r.file_path = p /\ r.status = "indexed"]_vars

\* C21: persisting a turn is all-or-nothing: every conversation in the store
\* has a user message followed by its assistant message, and every user message
\* in the log is followed at once by the assistant message of the same
\* conversation, also after a store failure part-way and after a turn with an
\* invalid conversation identifier.
C21_TurnAllOrNothing ==
    /\ \A c \in convs :
         \E i \in DOMAIN messages :
           /\ messages[i].conversation_id = c.id
           /\ messages[i].role = "user"
    /\ \A i \in DOMAIN messages :
         messages[i].role = "user" =>
           /\ i < Len(messages)
           /\ messages[i + 1].role = "assistant"
           /\ messages[i + 1].conversation_id = messages[i].conversation_id
    /\ \A i \in DOMAIN messages :
         messages[i].role = "assistant" =>
           /\ i > 1
           /\ messages[i - 1].role = "user"

\* A turn whose persistence failed after its conversation had been inserted
\* (the serial moved on, no conversation is left of it), after an earlier turn
\* had been stored whole.
C21_Witness ==
    /\ req.pc = "done"
    /\ req.dbfail
    /\ req.conv = NoConv
    /\ out.answer # NULL
    /\ nextConv = 3
    /\ Cardinality(convs) = 1
    /\ Len(messages) = 2

\* C22: the status processing is transient: a record has it only while a run
\* of index_document on its path is in flight, whatever the two threads, the
\* uploads and the deletes do and also when the embedding backend fails, as
\* long as the store has answered every call.
InFlight(p) == \E t \in Threads : Running(t) /\ th[t].via # "" /\ th[t].fp = p

BothInFlight ==
    /\ \A t \in Threads : th[t].pc \in {"idx_extract", "idx_embed"}
    /\ th["main"].fp = th["event"].fp
    /\ \E r \in docs : r.status = "processing"

====
